---- MODULE Spec2Model ----
(***************************************************************************)
(* compact-bar: a zellij plugin that renders the tab strip and switches    *)
(* sessions, remembering per client which tab/pane was focused.            *)
(*                                                                         *)
(* The model follows src/src/main.rs.  One plugin instance (struct State)  *)
(* handles host notifications one at a time; every handler is one action.  *)
(* The per-session cache files under /tmp are shared with the plugin       *)
(* instances of other clients; one such instance ("other") runs the same   *)
(* dump_layout_to_cache against the same files, in the steps the file      *)
(* system lets another process observe.                                    *)
(***************************************************************************)
EXTENDS Integers, Sequences, FiniteSets, TLC

VARIABLES
    tabs,                               \* State.tabs
    panes,                              \* State.panes
    active_tab_idx,                     \* State.active_tab_idx
    next_session,                       \* State.next_session
    clients,                            \* State.clients
    switch_session_event_source_pid,    \* State.switch_session_event_source_pid
    current_session,                    \* State.current_session
    pid,                                \* State.pid
    files,                              \* /tmp/<session>.json, per session name
    other,                              \* another client's plugin instance, dumping
    out,                                \* the handler that ran last and its calls
    sessions,                           \* the session list delivered last
    burst,                              \* the triggers since the last delivery
    mode_info,                          \* State.mode_info
    tab_line,                           \* State.tab_line
    event,                              \* the event handled last, where it is remembered
    credit,                             \* triggers with a pid, less switch requests
    probe                               \* a function applied on its own: input, result

vars == << tabs, panes, active_tab_idx, next_session, clients,
           switch_session_event_source_pid, current_session, pid,
           files, other, out, sessions, burst,
           mode_info, tab_line, event, credit, probe >>

strip == << mode_info, tab_line >>

state == << tabs, panes, active_tab_idx, next_session, clients,
            switch_session_event_source_pid, current_session, pid, strip >>

\* what is remembered of a run beside the program's own state
history == << burst, event, credit, probe >>

(***************************************************************************)
(* Bounds of the model.                                                    *)
(***************************************************************************)
MaxPid == 2          \* client process ids are 1..MaxPid
MaxTabs == 2         \* a tab list has at most MaxTabs tabs
MaxNameLen == 2      \* the session names "a", "aa", ... have at most MaxNameLen letters
MaxSessions == 3     \* a session list has at most MaxSessions sessions
BufCapacity == 5     \* tokens a BufWriter holds before it writes them out
MaxBurst == 2        \* triggers remembered since the last delivery
MaxParts == 2        \* a strip given to get_tab_to_focus on its own has at most MaxParts parts
MaxCredit == 2       \* triggers with a pid counted ahead of the switch requests
MaxCol == 7          \* a click is at a column 0..MaxCol; the terminal is MaxCol or 3 * MaxCol wide

(***************************************************************************)
(* Option<T>: None is the empty set, Some(x) the singleton.                *)
(***************************************************************************)
None == {}
Some(x) == {x}
IsSome(o) == o # {}
Unwrap(o) == CHOOSE x \in o : TRUE

Min(a, b) == IF a <= b THEN a ELSE b
Max(a, b) == IF a >= b THEN a ELSE b

(***************************************************************************)
(* Strings are sequences of letters; String::cmp is lexicographic.         *)
(***************************************************************************)
RECURSIVE StrLess(_, _)
StrLess(a, b) ==
    IF a = <<>> THEN b # <<>>
    ELSE IF b = <<>> THEN FALSE
    ELSE IF Head(a) # Head(b) THEN Head(a) < Head(b)
    ELSE StrLess(Tail(a), Tail(b))

\* The session names: "a", "aa", ... and "ab", "b".
Names == { [i \in 1..n |-> 1] : n \in 1..MaxNameLen } \cup { <<1, 2>>, <<2>> }
\* The two sessions of the switching runs, "a" and "ab".
SwitchNames == { <<1>>, <<1, 2>> }
EmptyString == <<>>

(***************************************************************************)
(* ClientLayout and the JSON document of a session's cache.                *)
(* A document is a sequence of tokens; serde_json writes a BTreeMap as an  *)
(* object whose members are in ascending key order, a u32 key as a string, *)
(* and a ClientLayout as {"tab_idx": n, "pane": [id, is_plugin]}.          *)
(***************************************************************************)
ClientLayout(tab_idx, pane_id, is_plugin) ==
    [tab_idx |-> tab_idx, pane |-> << pane_id, is_plugin >>]

Tok(t, v) == [t |-> t, v |-> v]
BoolTok(b) == IF b THEN Tok("true", 0) ELSE Tok("false", 0)

EmptyMap == [k \in {} |-> {}]
\* (an insert that keeps the entry already there)
MapInsertKeepOld(m, k, v) ==
    [q \in (DOMAIN m) \cup {k} |-> IF q \in DOMAIN m THEN m[q] ELSE v]

\* BTreeMap::insert
MapInsert(m, k, v) == [q \in (DOMAIN m) \cup {k} |-> IF q = k THEN v ELSE m[q]]
MapLookup(m, k) == IF k \in DOMAIN m THEN Some(m[k]) ELSE None

SmallestKey(ks) == CHOOSE k \in ks : \A q \in ks : k <= q

EntryToJson(k, layout) ==
    << Tok("key", k), Tok("num", layout.tab_idx),
       Tok("num", layout.pane[1]), BoolTok(layout.pane[2]) >>

RECURSIVE MembersToJson(_, _)
MembersToJson(m, ks) ==
    IF ks = {} THEN <<>>
    ELSE LET k == SmallestKey(ks)
         IN  EntryToJson(k, m[k]) \o MembersToJson(m, ks \ {k})

\* serde_json::to_writer_pretty(&layout_info)
ToJson(m) == << Tok("{", 0) >> \o MembersToJson(m, DOMAIN m) \o << Tok("}", 0) >>

\* serde_json::from_reader: the members up to the closing brace, which must
\* be the last token; anything else (end of input, a token out of place,
\* trailing tokens) is an error.
RECURSIVE ParseMembers(_, _, _)
ParseMembers(c, i, acc) ==
    IF i > Len(c) THEN [ok |-> FALSE, val |-> EmptyMap]
    ELSE IF c[i].t = "}"
         THEN [ok |-> i = Len(c), val |-> IF i = Len(c) THEN acc ELSE EmptyMap]
    ELSE IF /\ i + 3 <= Len(c)
            /\ c[i].t = "key"
            /\ c[i + 1].t = "num"
            /\ c[i + 2].t = "num"
            /\ c[i + 3].t \in {"true", "false"}
         THEN ParseMembers(c, i + 4,
                  MapInsert(acc, c[i].v,
                      ClientLayout(c[i + 1].v, c[i + 2].v, c[i + 3].t = "true")))
    ELSE [ok |-> FALSE, val |-> EmptyMap]

FromJson(c) ==
    IF Len(c) >= 1 /\ c[1].t = "{"
    THEN ParseMembers(c, 2, EmptyMap)
    ELSE [ok |-> FALSE, val |-> EmptyMap]

(***************************************************************************)
(* The file system: per session name, whether /tmp/<name>.json exists and  *)
(* its content.                                                            *)
(***************************************************************************)
NoFile == [exists |-> FALSE, content |-> <<>>]
FileOf(content) == [exists |-> TRUE, content |-> content]

\* (a reader that keeps the members it read before the error)
MembersRead(c) ==
    LET n == IF Len(c) >= 1 /\ c[1].t = "{" THEN (Len(c) - 1) \div 4 ELSE 0
        whole == { j \in 1..n : /\ c[4 * j - 2].t = "key"
                                /\ c[4 * j - 1].t = "num"
                                /\ c[4 * j].t = "num"
                                /\ c[4 * j + 1].t \in {"true", "false"} }
    IN  [k \in { c[4 * j - 2].v : j \in whole } |->
            LET j == CHOOSE i \in whole : c[4 * i - 2].v = k
            IN  ClientLayout(c[4 * j - 1].v, c[4 * j].v, c[4 * j + 1].t = "true")]

GetSessionLayoutInfoLenient(fs, session_name) ==
    IF fs[session_name].exists
    THEN MembersRead(fs[session_name].content)
    ELSE EmptyMap

\* State::get_session_layout_info, reading the files fs
GetSessionLayoutInfo(fs, session_name) ==
    IF fs[session_name].exists
    THEN LET parsed == FromJson(fs[session_name].content)
         IN  IF parsed.ok THEN parsed.val ELSE EmptyMap
    ELSE EmptyMap

(***************************************************************************)
(* Tabs and panes as the host describes them.                              *)
(***************************************************************************)
TabInfo(position, active) == [position |-> position, active |-> active]
PaneInfo(id, is_plugin, is_focused) ==
    [id |-> id, is_plugin |-> is_plugin, is_focused |-> is_focused]

\* the index counted from 1
PositionActiveFromOne(ts) ==
    LET hits == { i \in 1..Len(ts) : ts[i].active }
    IN  IF hits = {} THEN None
        ELSE Some(CHOOSE i \in hits : \A j \in hits : i <= j)

\* the first tab taken when none is active
PositionActiveOrFirst(ts) ==
    LET hits == { i \in 1..Len(ts) : ts[i].active }
    IN  IF hits = {} THEN Some(0)
        ELSE Some((CHOOSE i \in hits : \A j \in hits : i <= j) - 1)

\* tabs.iter().position(|t| t.active): the 0-based index, None when absent
PositionActive(ts) ==
    LET hits == { i \in 1..Len(ts) : ts[i].active }
    IN  IF hits = {} THEN None
        ELSE Some((CHOOSE i \in hits : \A j \in hits : i <= j) - 1)

\* zellij_tile get_focused_tab: the first tab flagged active
GetFocusedTab(ts) ==
    LET i == PositionActive(ts)
    IN  IF IsSome(i) THEN Some(ts[Unwrap(i) + 1]) ELSE None

\* zellij_tile get_focused_pane: the first focused non-plugin pane of the tab
GetFocusedPane(tab_position, manifest) ==
    IF tab_position \notin DOMAIN manifest THEN None
    ELSE LET ps == manifest[tab_position]
             hits == { i \in 1..Len(ps) : ps[i].is_focused /\ ~ps[i].is_plugin }
         IN  IF hits = {} THEN None
             ELSE Some(ps[CHOOSE i \in hits : \A j \in hits : i <= j])

(***************************************************************************)
(* Calls a handler makes to the host and to the file system, in order.     *)
(***************************************************************************)
Call(call, session, layout) == [call |-> call, session |-> session, layout |-> layout]
\* what a handler did: its calls and the should_render it returned
RanRender(handler, calls, should_render) ==
    [handler |-> handler, calls |-> calls, should_render |-> should_render]
Ran(handler, calls) == RanRender(handler, calls, FALSE)

(***************************************************************************)
(* Event::SessionUpdate (main.rs 109-126)                                  *)
(***************************************************************************)
SessionInfo(name, is_current_session) ==
    [name |-> name, is_current_session |-> is_current_session]

\* Insert x behind the entries that do not sort after it (a stable sort).
RECURSIVE InsertByName(_, _)
InsertByName(sorted, x) ==
    IF sorted = <<>> THEN << x >>
    ELSE LET last == sorted[Len(sorted)]
         IN  IF StrLess(x.name, last.name)
             THEN Append(InsertByName(SubSeq(sorted, 1, Len(sorted) - 1), x), last)
             ELSE Append(sorted, x)

RECURSIVE SortByName(_)
SortByName(ss) ==
    IF ss = <<>> THEN <<>>
    ELSE InsertByName(SortByName(SubSeq(ss, 1, Len(ss) - 1)), ss[Len(ss)])

\* all_sessions.iter().position(|item| item.is_current_session).unwrap()
CurrentSessionIndex(all_sessions) ==
    CHOOSE i \in 0..(Len(all_sessions) - 1) :
        /\ all_sessions[i + 1].is_current_session
        /\ \A j \in 0..(i - 1) : ~all_sessions[j + 1].is_current_session

\* (a successor that stops at the last session)
NextSessionIndexClamped(current_session_index, len) ==
    Min(current_session_index + 1, len - 1)

\* (current_session_index + 1) % all_sessions.len()
NextSessionIndex(current_session_index, len) == (current_session_index + 1) % len

\* the next_session the handler leaves, given the one it found
NextSessionAfter(all_sessions, old_next_session) ==
    IF Len(all_sessions) > 1
    THEN Some(all_sessions[NextSessionIndex(CurrentSessionIndex(all_sessions),
                                            Len(all_sessions)) + 1].name)
    ELSE old_next_session

SessionUpdate(ss) ==
    LET all_sessions == SortByName(ss)
    IN  /\ current_session' = all_sessions[CurrentSessionIndex(all_sessions) + 1].name
        /\ next_session' = NextSessionAfter(all_sessions, next_session)
        /\ sessions' = ss
        /\ out' = Ran("update", <<>>)
        /\ UNCHANGED << tabs, panes, active_tab_idx, clients,
                        switch_session_event_source_pid, pid, files, other, strip >>

(***************************************************************************)
(* Event::TabUpdate (main.rs 81-93) and Event::PaneUpdate (127-129)        *)
(***************************************************************************)
TabUpdate(ts) ==
    /\ IF IsSome(PositionActive(ts))
       THEN /\ active_tab_idx' = Unwrap(PositionActive(ts)) + 1
            /\ tabs' = ts
            /\ out' = RanRender("update", <<>>,
                                \/ active_tab_idx # Unwrap(PositionActive(ts)) + 1
                                \/ tabs # ts)
       ELSE /\ UNCHANGED << active_tab_idx, tabs >>
            /\ out' = Ran("update", <<>>)
    /\ UNCHANGED << panes, next_session, clients, switch_session_event_source_pid,
                    current_session, pid, files, other, sessions, strip >>

PaneUpdate(pm) ==
    /\ panes' = pm
    /\ out' = Ran("update", <<>>)
    /\ UNCHANGED << tabs, active_tab_idx, next_session, clients,
                    switch_session_event_source_pid, current_session, pid,
                    files, other, sessions, strip >>

(***************************************************************************)
(* ZellijPlugin::pipe (main.rs 192-204)                                    *)
(***************************************************************************)
Keybind(source_pid) == [kind |-> "Keybind", source_pid |-> source_pid]
Cli == [kind |-> "Cli", source_pid |-> 0]

\* (a trigger that leaves a stored id alone)
TriggerSourceKeepFirst(old, source) ==
    IF IsSome(old) THEN old
    ELSE IF source.kind = "Keybind" THEN Some(source.source_pid) ELSE None

\* the id the trigger stores, whatever was stored before
TriggerSource(old, source) ==
    IF source.kind = "Keybind" THEN Some(source.source_pid) ELSE None

\* the message of any name taken for a trigger
PipeAnyName(name, source) ==
    /\ switch_session_event_source_pid' =
           TriggerSource(switch_session_event_source_pid, source)
    /\ out' = RanRender("pipe",
                        IF name = "switch_session"
                        THEN << Call("list_clients", EmptyString, None) >> ELSE <<>>,
                        TRUE)
    /\ UNCHANGED << tabs, panes, active_tab_idx, next_session, clients,
                    current_session, pid, files, other, sessions, strip >>

Pipe(name, source) ==
    /\ IF name = "switch_session"
       THEN /\ switch_session_event_source_pid' =
                   TriggerSource(switch_session_event_source_pid, source)
            /\ out' = RanRender("pipe",
                                << Call("list_clients", EmptyString, None) >>, TRUE)
       ELSE /\ UNCHANGED switch_session_event_source_pid
            /\ out' = RanRender("pipe", <<>>, TRUE)
    /\ UNCHANGED << tabs, panes, active_tab_idx, next_session, clients,
                    current_session, pid, files, other, sessions, strip >>

(***************************************************************************)
(* State::dump_layout_to_cache (main.rs 252-282), on the files fs.         *)
(* File::create truncates the file and the BufWriter is flushed when       *)
(* to_writer_pretty returns; within one handler that is one write.         *)
(***************************************************************************)
\* the dump that writes its own entry into an empty mapping
DumpLayoutToCacheFresh(ts, pm, session, p, fs) ==
    LET focused_tab == GetFocusedTab(ts)
        focused_pane == IF IsSome(focused_tab)
                        THEN GetFocusedPane(Unwrap(focused_tab).position, pm)
                        ELSE None
    IN  IF ~IsSome(focused_tab) \/ ~IsSome(focused_pane)
        THEN [files |-> fs, calls |-> <<>>]
        ELSE LET layout == ClientLayout(Unwrap(focused_tab).position,
                                        Unwrap(focused_pane).id,
                                        Unwrap(focused_pane).is_plugin)
                 layout_info == MapInsert(EmptyMap, p, layout)
             IN  [files |-> [fs EXCEPT ![session] = FileOf(ToJson(layout_info))],
                  calls |-> << Call("open", session, None),
                               Call("create", session, None),
                               Call("write", session, Some(layout)) >>]

\* the dump that creates the file before it looks for the focused pane
DumpLayoutToCacheCreateFirst(ts, pm, session, p, fs) ==
    LET focused_tab == GetFocusedTab(ts)
        focused_pane == IF IsSome(focused_tab)
                        THEN GetFocusedPane(Unwrap(focused_tab).position, pm)
                        ELSE None
    IN  IF ~IsSome(focused_tab) \/ ~IsSome(focused_pane)
        THEN [files |-> [fs EXCEPT ![session] = FileOf(<<>>)],
              calls |-> << Call("create", session, None) >>]
        ELSE LET layout == ClientLayout(Unwrap(focused_tab).position,
                                        Unwrap(focused_pane).id,
                                        Unwrap(focused_pane).is_plugin)
                 layout_info == MapInsert(GetSessionLayoutInfo(fs, session), p, layout)
             IN  [files |-> [fs EXCEPT ![session] = FileOf(ToJson(layout_info))],
                  calls |-> << Call("open", session, None),
                               Call("create", session, None),
                               Call("write", session, Some(layout)) >>]

DumpLayoutToCache(ts, pm, session, p, fs) ==
    LET focused_tab == GetFocusedTab(ts)
        focused_pane == IF IsSome(focused_tab)
                        THEN GetFocusedPane(Unwrap(focused_tab).position, pm)
                        ELSE None
    IN  IF ~IsSome(focused_tab) \/ ~IsSome(focused_pane)
        THEN [files |-> fs, calls |-> <<>>]
        ELSE LET layout == ClientLayout(Unwrap(focused_tab).position,
                                        Unwrap(focused_pane).id,
                                        Unwrap(focused_pane).is_plugin)
                 layout_info == MapInsert(GetSessionLayoutInfo(fs, session), p, layout)
             IN  [files |-> [fs EXCEPT ![session] = FileOf(ToJson(layout_info))],
                  calls |-> << Call("open", session, None),
                               Call("create", session, None),
                               Call("write", session, Some(layout)) >>]

(***************************************************************************)
(* State::try_switch_session (main.rs 208-250)                             *)
(***************************************************************************)
\* clients.iter().find(|c| c.is_current_client).map(|v| v.client_pid)
ClientInfo(client_pid, is_current_client) ==
    [client_pid |-> client_pid, is_current_client |-> is_current_client]

PluginPid(cl) ==
    LET hits == { i \in 1..Len(cl) : cl[i].is_current_client }
    IN  IF hits = {} THEN None
        ELSE Some(cl[CHOOSE i \in hits : \A j \in hits : i <= j].client_pid)

\* (any stored id counts)
TriggerIsOwnAnyPid(src, p) == IsSome(src)

\* main.rs 224-225
TriggerIsOwn(src, p) == IsSome(src) /\ p = Unwrap(src)

\* (the layout found is not passed on)
SwitchRequestPlain(next, found) == Call("switch_session", next, None)

\* main.rs 231-245: the request made for the layout found
SwitchRequest(next, found) ==
    IF IsSome(found)
    THEN Call("switch_session_with_focus", next, found)
    ELSE Call("switch_session", next, None)

\* (the next session's cache is read before the dump)
DoSwitchLookupFirst(ts, pm, cur, next, p, fs) ==
    LET found == MapLookup(GetSessionLayoutInfo(fs, next), p)
        dumped == DumpLayoutToCache(ts, pm, cur, p, fs)
    IN  [files |-> dumped.files,
         calls |-> << Call("open", next, None) >> \o dumped.calls
                   \o << SwitchRequest(next, found) >>]

\* main.rs 227-246, with next_session present
DoSwitch(ts, pm, cur, next, p, fs) ==
    LET dumped == DumpLayoutToCache(ts, pm, cur, p, fs)
        found == MapLookup(GetSessionLayoutInfo(dumped.files, next), p)
    IN  [files |-> dumped.files,
         calls |-> dumped.calls \o << Call("open", next, None),
                                      SwitchRequest(next, found) >>]

\* (the stored id is kept after a switch)
TrySwitchSessionKeepId(cl, cur, next, src, p, ts, pm, fs) ==
    IF cur = EmptyString
    THEN [pid |-> p, src |-> src, files |-> fs, calls |-> <<>>]
    ELSE IF ~IsSome(PluginPid(cl))
    THEN [pid |-> p, src |-> src, files |-> fs, calls |-> <<>>]
    ELSE LET plugin_pid == Unwrap(PluginPid(cl))
         IN  IF TriggerIsOwn(src, plugin_pid) /\ IsSome(next)
             THEN LET done == DoSwitch(ts, pm, cur, Unwrap(next), plugin_pid, fs)
                  IN  [pid |-> plugin_pid, src |-> src,
                       files |-> done.files, calls |-> done.calls]
             ELSE [pid |-> plugin_pid, src |-> None, files |-> fs, calls |-> <<>>]

\* the handler's result: the fields it leaves and the calls it made
TrySwitchSession(cl, cur, next, src, p, ts, pm, fs) ==
    IF cur = EmptyString
    THEN [pid |-> p, src |-> src, files |-> fs, calls |-> <<>>]
    ELSE IF ~IsSome(PluginPid(cl))
    THEN [pid |-> p, src |-> src, files |-> fs, calls |-> <<>>]
    ELSE LET plugin_pid == Unwrap(PluginPid(cl))
         IN  IF TriggerIsOwn(src, plugin_pid) /\ IsSome(next)
             THEN LET done == DoSwitch(ts, pm, cur, Unwrap(next), plugin_pid, fs)
                  IN  [pid |-> plugin_pid, src |-> None,
                       files |-> done.files, calls |-> done.calls]
             ELSE [pid |-> plugin_pid, src |-> None, files |-> fs, calls |-> <<>>]

\* Event::ListClients (main.rs 130-133)
ListClients(cl) ==
    LET r == TrySwitchSession(cl, current_session, next_session,
                              switch_session_event_source_pid, pid,
                              tabs, panes, files)
    IN  /\ clients' = cl
        /\ pid' = r.pid
        /\ switch_session_event_source_pid' = r.src
        /\ files' = r.files
        /\ out' = Ran("ListClients", r.calls)
        /\ UNCHANGED << tabs, panes, active_tab_idx, next_session,
                        current_session, other, sessions, strip >>

(***************************************************************************)
(* The plugin instance of another client, in dump_layout_to_cache          *)
(* (main.rs 271-281) for a session: it loads the mapping, inserts its own  *)
(* entry, truncates the file (File::create), and its BufWriter then writes *)
(* the document at the descriptor's offset, BufCapacity tokens at a time.  *)
(* `out` is reset: the plugin's last calls are no longer the last to have  *)
(* touched the files.                                                      *)
(***************************************************************************)
OtherPid == MaxPid
OtherLayout == ClientLayout(0, 0, FALSE)
OtherIdle == [pc |-> "idle", session |-> EmptyString, pre |-> EmptyMap,
              post |-> EmptyMap, written |-> 0]

\* write(2) of chunk at offset into a file holding content
WriteAt(content, offset, chunk) ==
    LET end == offset + Len(chunk)
        len == Max(Len(content), end)
    IN  [i \in 1..len |->
            IF i <= offset
            THEN (IF i <= Len(content) THEN content[i] ELSE Tok("nul", 0))
            ELSE IF i <= end THEN chunk[i - offset]
            ELSE content[i]]

OtherCreate(s) ==
    /\ other.pc = "idle"
    /\ LET pre == GetSessionLayoutInfo(files, s)
       IN  other' = [pc |-> "writing", session |-> s, pre |-> pre,
                     post |-> MapInsert(pre, OtherPid, OtherLayout), written |-> 0]
    /\ files' = [files EXCEPT ![s] = FileOf(<<>>)]
    /\ out' = Ran("none", <<>>)
    /\ UNCHANGED << state, sessions >>

OtherFlush ==
    /\ other.pc = "writing"
    /\ LET doc == ToJson(other.post)
           upto == Min(other.written + BufCapacity, Len(doc))
           chunk == SubSeq(doc, other.written + 1, upto)
       IN  /\ files' = [files EXCEPT ![other.session] =
                           FileOf(WriteAt(@.content, other.written, chunk))]
           /\ other' = IF upto = Len(doc) THEN OtherIdle
                       ELSE [other EXCEPT !.written = upto]
    /\ out' = Ran("none", <<>>)
    /\ UNCHANGED << state, sessions >>

(***************************************************************************)
(* What the host delivers.                                                 *)
(***************************************************************************)
Pids == 1..MaxPid

\* Session lists: distinct names, exactly one session flagged current.
SessionLists(names) ==
    UNION { { [i \in 1..n |-> SessionInfo(f[i], i = c)] :
                f \in { g \in [1..n -> names] :
                          \A i, j \in 1..n : i # j => g[i] # g[j] },
                c \in 1..n }
            : n \in 1..Min(MaxSessions, Cardinality(names)) }

\* Tab lists: positions in list order, at most one tab active.
TabLists == { [i \in 1..MaxTabs |-> TabInfo(i - 1, i = a)] : a \in 0..MaxTabs }

\* Pane manifests: per tab position the bar's own (plugin) pane and two
\* terminal panes; the focus is on a terminal pane or on no terminal pane.
FocusManifest ==
    [t \in 0..(MaxTabs - 1) |->
        << PaneInfo(t, TRUE, TRUE), PaneInfo(t, FALSE, FALSE),
           PaneInfo(t + 1, FALSE, TRUE) >>]
PluginFocusManifest ==
    [t \in 0..(MaxTabs - 1) |->
        << PaneInfo(t, TRUE, TRUE), PaneInfo(t, FALSE, FALSE),
           PaneInfo(t + 1, FALSE, FALSE) >>]
PaneManifests == { FocusManifest, PluginFocusManifest }

\* Client lists: the clients MaxPid..1, the plugin's own client (listed
\* last) flagged current or, in a list that lacks the flag, no client at all.
ClientLists ==
    { [i \in 1..MaxPid |-> ClientInfo(MaxPid + 1 - i, c /\ i = MaxPid)] :
        c \in BOOLEAN }

PipeNames == { "switch_session", "other" }
PipeSources == { Keybind(p) : p \in Pids } \cup { Cli }

(***************************************************************************)
(* The triggers of the cycle in progress: the sources of the               *)
(* switch_session messages received with no client list delivered between  *)
(* them (the last MaxBurst), whether a client list was delivered since the *)
(* latest of them, and the switch requests issued since.                   *)
(***************************************************************************)
NoBurst == [ids |-> <<>>, delivered |-> FALSE, switches |-> 0]

LastOf(seq, n) == IF Len(seq) <= n THEN seq ELSE SubSeq(seq, Len(seq) - n + 1, Len(seq))

IsSwitch(c) == c.call \in { "switch_session", "switch_session_with_focus" }
SwitchCalls(calls) == { i \in 1..Len(calls) : IsSwitch(calls[i]) }
SwitchIssued(o) == SwitchCalls(o.calls) # {}

\* a pipe message arrived: its source is remembered if it is a trigger
BurstOnPipe(name, source) ==
    IF name = "switch_session"
    THEN LET id == IF source.kind = "Keybind" THEN Some(source.source_pid) ELSE None
         IN  burst' = [ids |-> IF burst.delivered THEN << id >>
                               ELSE LastOf(Append(burst.ids, id), MaxBurst),
                       delivered |-> FALSE,
                       switches |-> 0]
    ELSE UNCHANGED burst

\* a client list was delivered: the switch requests of its handling count
BurstOnClients ==
    burst' = [burst EXCEPT !.delivered = TRUE,
                           !.switches = Min(@ + Cardinality(SwitchCalls(out'.calls)),
                                            MaxBurst)]

(***************************************************************************)
(* The tab strip (tab.rs; main.rs 17-22, 141-190).  Text is a sequence of  *)
(* one-character strings; a styled string is the glyphs the terminal       *)
(* shows, the escape sequences of the styling take no column.              *)
(***************************************************************************)
\* UnicodeWidthStr::width: "W" stands for a double-width character
CharWidth(c) == IF c = "W" THEN 2 ELSE 1

RECURSIVE Width(_)
Width(text) == IF text = <<>> THEN 0 ELSE CharWidth(Head(text)) + Width(Tail(text))

Digits == << "0", "1", "2", "3", "4", "5", "6", "7", "8", "9" >>

\* usize::to_string
RECURSIVE UsizeToString(_)
UsizeToString(n) ==
    IF n < 10 THEN << Digits[n + 1] >>
    ELSE UsizeToString(n \div 10) \o << Digits[(n % 10) + 1] >>

SaturatingSub(a, b) == IF a >= b THEN a - b ELSE 0

LinePart(part, len, tab_index) == [part |-> part, len |-> len, tab_index |-> tab_index]

\* LinePart::default()
DefaultLinePart == LinePart(<<>>, 0, None)

\* a TabInfo with the fields the strip reads
TabInfoOf(position, name, active, is_sync_panes_active, other_focused_clients) ==
    [position |-> position, name |-> name, active |-> active,
     is_sync_panes_active |-> is_sync_panes_active,
     other_focused_clients |-> other_focused_clients]

\* zellij_tile's client_id_to_colors: the palette has a colour pair for ten clients
ClientIdToColors(client_id) == IF client_id \in 1..10 THEN Some(client_id) ELSE None

\* cursors (tab.rs 7-18): one painted blank per client with a colour
RECURSIVE Cursors(_)
Cursors(focused_clients) ==
    IF focused_clients = <<>> THEN [cursors |-> <<>>, len |-> 0]
    ELSE LET rest == Cursors(Tail(focused_clients))
         IN  IF IsSome(ClientIdToColors(Head(focused_clients)))
             THEN [cursors |-> << " " >> \o rest.cursors, len |-> 1 + rest.len]
             ELSE rest

\* render_tab (tab.rs 20-71)
RenderTab(text, tab) ==
    LET focused_clients == tab.other_focused_clients
        tab_text_len    == Width(text) + 2
        tab_styled_text == << " " >> \o text \o << " " >>
    IN  IF focused_clients # <<>>
        THEN LET c == Cursors(focused_clients)
             IN  LinePart(tab_styled_text \o << "[" >> \o c.cursors \o << "]" >>,
                          tab_text_len + c.len, Some(tab.position))
        ELSE LinePart(tab_styled_text, tab_text_len, Some(tab.position))

SyncSuffix == << " ", "(", "S", "y", "n", "c", ")" >>

\* tab_style (tab.rs 73-79)
TabStyle(tabname, tab) ==
    RenderTab(IF tab.is_sync_panes_active THEN tabname \o SyncSuffix ELSE tabname, tab)

\* get_clicked_line_part (tab.rs 96-108), the scan from the part at index i
\* with len columns before it
RECURSIVE ClickedFrom(_, _, _, _)
ClickedFrom(line, mouse_click_col, i, len) ==
    IF i > Len(line) THEN None
    ELSE IF mouse_click_col >= len /\ mouse_click_col < len + line[i].len
         THEN Some(line[i])
         ELSE ClickedFrom(line, mouse_click_col, i + 1, len + line[i].len)

\* the scan with the column after a part taken for the part
RECURSIVE ClickedFromInclusive(_, _, _, _)
ClickedFromInclusive(line, mouse_click_col, i, len) ==
    IF i > Len(line) THEN None
    ELSE IF mouse_click_col >= len /\ mouse_click_col <= len + line[i].len
         THEN Some(line[i])
         ELSE ClickedFromInclusive(line, mouse_click_col, i + 1, len + line[i].len)

GetClickedLinePartInclusive(line, mouse_click_col) ==
    ClickedFromInclusive(line, mouse_click_col, 1, 0)

GetClickedLinePart(line, mouse_click_col) == ClickedFrom(line, mouse_click_col, 1, 0)

\* get_tab_to_focus (tab.rs 81-94)
GetTabToFocus(line, active_idx, mouse_click_col) ==
    LET clicked_line_part == GetClickedLinePart(line, mouse_click_col)
    IN  IF clicked_line_part = None THEN None
        ELSE IF Unwrap(clicked_line_part).tab_index = None THEN None
        ELSE LET clicked_tab_idx == Unwrap(Unwrap(clicked_line_part).tab_index) + 1
             IN  IF clicked_tab_idx # active_idx THEN Some(clicked_tab_idx) ELSE None

RECURSIVE TotalLen(_)
TotalLen(line) == IF line = <<>> THEN 0 ELSE Head(line).len + TotalLen(Tail(line))

\* the parts of segs at the indices of keep from i on, in their order
RECURSIVE Pick(_, _, _)
Pick(segs, keep, i) ==
    IF i > Len(segs) THEN <<>>
    ELSE (IF i \in keep THEN << segs[i] >> ELSE <<>>) \o Pick(segs, keep, i + 1)

\* tab_line (line.rs, called at main.rs 165-173): the strips the layout
\* engine may return.  The session name's part, without a tab, is in front
\* or not; all the tabs follow if they fit in cols; if not, some of them in
\* their order, the active one among them when it can be.
TabLine(session_name, all_tabs, active_tab_index, cols) ==
    LET prefixes == { <<>> } \cup { << LinePart(n, Width(n), None) >> : n \in session_name }
        all      == 1..Len(all_tabs)
        Fits(p)  == { keep \in SUBSET all : TotalLen(p \o Pick(all_tabs, keep, 1)) <= cols }
        Kept(p)  == IF all \in Fits(p) THEN { all }
                    ELSE IF \E keep \in Fits(p) : active_tab_index + 1 \in keep
                         THEN { keep \in Fits(p) : active_tab_index + 1 \in keep }
                         ELSE Fits(p)
    IN  IF all_tabs = <<>> THEN { <<>> }
        ELSE UNION { { p \o Pick(all_tabs, keep, 1) : keep \in Kept(p) } : p \in prefixes }

Placeholder == << "E", "n", "t", "e", "r", " ", "n", "a", "m", "e", ".", ".", "." >>

\* the loop of render (main.rs 146-164): the styled tabs
AllTabs(ts, mode) ==
    [i \in 1..Len(ts) |->
        LET t       == ts[i]
            tabname == IF t.active /\ mode = "RenameTab" /\ t.name = <<>>
                       THEN Placeholder ELSE t.name
        IN  TabStyle(UsizeToString(i) \o << " " >> \o tabname, t)]

\* the loop of render (main.rs 147-157): the position of the last active tab
RECURSIVE ActiveTabIndexFrom(_, _, _)
ActiveTabIndexFrom(ts, i, active_tab_index) ==
    IF i > Len(ts) THEN active_tab_index
    ELSE ActiveTabIndexFrom(ts, i + 1, IF ts[i].active THEN ts[i].position
                                       ELSE active_tab_index)

\* ZellijPlugin::render (main.rs 141-190)
Render(cols) ==
    /\ IF tabs = <<>>
       THEN UNCHANGED tab_line
       ELSE tab_line' \in TabLine(mode_info.session_name,
                                  AllTabs(tabs, mode_info.mode),
                                  ActiveTabIndexFrom(tabs, 1, 0),
                                  SaturatingSub(cols, 1))
    /\ out' = Ran("render", <<>>)
    /\ UNCHANGED << tabs, panes, active_tab_idx, next_session, clients,
                    switch_session_event_source_pid, current_session, pid,
                    files, other, sessions, mode_info >>

\* Event::ModeUpdate (main.rs 75-80)
ModeUpdate(mi) ==
    /\ mode_info' = mi
    /\ out' = RanRender("update", <<>>, mode_info # mi)
    /\ UNCHANGED << tabs, panes, active_tab_idx, next_session, clients,
                    switch_session_event_source_pid, current_session, pid,
                    files, other, sessions, tab_line >>

\* switch_tab_to(tab_idx), a request to the host
SwitchTabTo(tab_idx) ==
    [call |-> "switch_tab_to", session |-> EmptyString, layout |-> None,
     tab_idx |-> tab_idx]

LeftClick(col) == [kind |-> "LeftClick", col |-> col]
ScrollUp == [kind |-> "ScrollUp", col |-> 0]
ScrollDown == [kind |-> "ScrollDown", col |-> 0]
Hover == [kind |-> "Hover", col |-> 0]

\* Event::Mouse (main.rs 94-108)
MouseCalls(me, line, active_idx, ts) ==
    CASE me.kind = "LeftClick" ->
             LET tab_to_focus == GetTabToFocus(line, active_idx, me.col)
             IN  IF IsSome(tab_to_focus) THEN << SwitchTabTo(Unwrap(tab_to_focus)) >>
                 ELSE <<>>
      [] me.kind = "ScrollUp" -> << SwitchTabTo(Min(active_idx + 1, Len(ts))) >>
      [] me.kind = "ScrollDown" -> << SwitchTabTo(Max(SaturatingSub(active_idx, 1), 1)) >>
      [] OTHER -> <<>>

Mouse(me) ==
    /\ out' = Ran("Mouse", MouseCalls(me, tab_line, active_tab_idx, tabs))
    /\ UNCHANGED << state, files, other, sessions >>

\* any other event (main.rs 134-136): logged
Unrecognized ==
    /\ out' = Ran("update", <<>>)
    /\ UNCHANGED << state, files, other, sessions >>

(***************************************************************************)
(* Specifications.                                                         *)
(***************************************************************************)
\* ModeInfo::default()
ModeInfo(mode, session_name) == [mode |-> mode, session_name |-> session_name]
DefaultModeInfo == ModeInfo("Normal", None)
NoEvent == [kind |-> "none", col |-> 0]
NoProbe == [fn |-> "none"]

InitProgram ==
    /\ tabs = <<>>
    /\ panes = EmptyMap
    /\ active_tab_idx = 0
    /\ next_session = None
    /\ clients = <<>>
    /\ switch_session_event_source_pid = None
    /\ current_session = EmptyString
    /\ pid = 0
    /\ files = [n \in Names |-> NoFile]
    /\ other = OtherIdle
    /\ out = Ran("load", <<>>)
    /\ sessions = <<>>
    /\ burst = NoBurst
    /\ mode_info = DefaultModeInfo
    /\ tab_line = <<>>
    /\ event = NoEvent
    /\ credit = 0

Init == InitProgram /\ probe = NoProbe

\* The plugin alone: every notification, two sessions to switch between.
Next ==
    \/ \E ss \in SessionLists(SwitchNames) : SessionUpdate(ss) /\ UNCHANGED history
    \/ \E ts \in TabLists : TabUpdate(ts) /\ UNCHANGED history
    \/ \E pm \in PaneManifests : PaneUpdate(pm) /\ UNCHANGED history
    \/ \E n \in PipeNames, src \in PipeSources : Pipe(n, src) /\ UNCHANGED history
    \/ \E cl \in ClientLists : ListClients(cl) /\ UNCHANGED history

Spec == Init /\ [][Next]_vars

\* The plugin and the plugin instance of another client on the same files:
\* both sessions exist, the tabs and panes have a focus, and the other
\* client dumps into the cache of the session "ab".
CacheSessionLists ==
    { ss \in SessionLists(SwitchNames) : Len(ss) = Cardinality(SwitchNames) }
OtherSessions == { <<1, 2>> }

NextCache ==
    \/ \E ss \in CacheSessionLists : SessionUpdate(ss) /\ UNCHANGED history
    \/ \E ts \in TabLists : TabUpdate(ts) /\ UNCHANGED history
    \/ PaneUpdate(FocusManifest) /\ UNCHANGED history
    \/ \E src \in PipeSources : Pipe("switch_session", src) /\ UNCHANGED history
    \/ \E cl \in ClientLists : ListClients(cl) /\ UNCHANGED history
    \/ \E s \in OtherSessions : OtherCreate(s) /\ UNCHANGED history
    \/ OtherFlush /\ UNCHANGED history

SpecCache == Init /\ [][NextCache]_vars

\* The switch machine alone, with the triggers of the cycle remembered.
NextBurst ==
    \/ \E ss \in SessionLists(SwitchNames) : SessionUpdate(ss) /\ UNCHANGED history
    \/ \E n \in PipeNames, src \in PipeSources : Pipe(n, src) /\ BurstOnPipe(n, src)
                                                    /\ UNCHANGED << event, credit, probe >>
    \/ \E cl \in ClientLists : ListClients(cl) /\ BurstOnClients
                                    /\ UNCHANGED << event, credit, probe >>

SpecBurst == Init /\ [][NextBurst]_vars

\* Session lists alone, over all the names.
NextSessions ==
    \E ss \in SessionLists(Names) : SessionUpdate(ss) /\ UNCHANGED history

SpecSessions == Init /\ [][NextSessions]_vars

(***************************************************************************)
(* The strip: tab lists, modes, the mouse and render.                      *)
(***************************************************************************)
\* tab lists as the host sends them: position is the list index, at most
\* one tab is active, another client (client id 2) may be on one of them
StripTabLists ==
    { [i \in 1..t[1] |-> TabInfoOf(i - 1, << "a" >>, i = t[2], FALSE,
                                   IF i = t[3] THEN << 2 >> ELSE <<>>)] :
        t \in { u \in (0..MaxTabs) \X (0..MaxTabs) \X (0..MaxTabs) :
                    u[2] <= u[1] /\ u[3] <= u[1] } }

ModeInfos == { ModeInfo("Normal", None), ModeInfo("RenameTab", None),
               ModeInfo("Normal", Some(<< "s" >>)) }

MouseEvents == { LeftClick(col) : col \in 0..MaxCol } \cup { ScrollUp, ScrollDown, Hover }

RenderCols == { MaxCol, 3 * MaxCol }

\* a tab list was delivered, with an active tab or with none
TabsEvent(ts) ==
    [kind |-> IF \E i \in 1..Len(ts) : ts[i].active
              THEN "TabUpdate" ELSE "TabUpdateNoActive",
     col |-> 0]

StripStep == event' = NoEvent /\ UNCHANGED << burst, credit, probe >>

NextStrip ==
    \/ \E ts \in StripTabLists : TabUpdate(ts) /\ event' = TabsEvent(ts)
                                                /\ UNCHANGED << burst, credit, probe >>
    \/ \E mi \in ModeInfos : ModeUpdate(mi) /\ StripStep
    \/ \E me \in MouseEvents : Mouse(me) /\ event' = me
                                          /\ UNCHANGED << burst, credit, probe >>
    \/ \E cols \in RenderCols : Render(cols) /\ StripStep
    \/ Unrecognized /\ StripStep

SpecStrip == Init /\ [][NextStrip]_vars

(***************************************************************************)
(* The switch machine with its tabs and panes, and the count of the        *)
(* triggers that carried a pid less the switch requests sent (the count is *)
(* not taken above MaxCredit).                                             *)
(***************************************************************************)
CreditOnPipe(name, source) ==
    credit' = IF name = "switch_session" /\ source.kind = "Keybind"
              THEN Min(credit + 1, MaxCredit)
              ELSE credit

CreditOnClients == credit' = credit - Cardinality(SwitchCalls(out'.calls))

NextCredit ==
    \/ \E ss \in CacheSessionLists : SessionUpdate(ss) /\ UNCHANGED history
    \/ \E ts \in TabLists : TabUpdate(ts) /\ UNCHANGED history
    \/ \E pm \in PaneManifests : PaneUpdate(pm) /\ UNCHANGED history
    \/ \E n \in PipeNames, src \in PipeSources : Pipe(n, src) /\ CreditOnPipe(n, src)
                                                    /\ UNCHANGED << burst, event, probe >>
    \/ \E cl \in ClientLists : ListClients(cl) /\ CreditOnClients
                                    /\ UNCHANGED << burst, event, probe >>

SpecCredit == Init /\ [][NextCredit]_vars

(***************************************************************************)
(* Every kind of notification, each with few payloads.                     *)
(***************************************************************************)
FrameTabLists == { ts \in TabLists : ts[1].active }
FrameModeInfos == { DefaultModeInfo, ModeInfo("RenameTab", None) }
FrameMouseEvents == { LeftClick(0), ScrollUp, ScrollDown, Hover }

NextFrame ==
    \/ \E ss \in CacheSessionLists : SessionUpdate(ss) /\ UNCHANGED history
    \/ \E ts \in FrameTabLists : TabUpdate(ts) /\ UNCHANGED history
    \/ PaneUpdate(FocusManifest) /\ UNCHANGED history
    \/ \E mi \in FrameModeInfos : ModeUpdate(mi) /\ UNCHANGED history
    \/ \E me \in FrameMouseEvents : Mouse(me) /\ UNCHANGED history
    \/ Unrecognized /\ UNCHANGED history
    \/ \E n \in PipeNames, src \in PipeSources : Pipe(n, src) /\ UNCHANGED history
    \/ \E cl \in ClientLists : ListClients(cl) /\ UNCHANGED history

SpecFrame == Init /\ [][NextFrame]_vars

(***************************************************************************)
(* get_tab_to_focus on its own (tab.rs 81-108): any strip of parts 0 to 2  *)
(* columns wide, with or without a tab, any active tab, any column.        *)
(***************************************************************************)
Parts == { LinePart(<<>>, len, tab_index) :
             len \in 0..2, tab_index \in { None } \cup { Some(p) : p \in 0..(MaxTabs - 1) } }

Strips == UNION { [1..n -> Parts] : n \in 0..MaxParts }

ClickInputs ==
    { [fn |-> "get_tab_to_focus", tab_line |-> line, active_tab_idx |-> a,
       mouse_click_col |-> col, done |-> FALSE, result |-> None] :
        line \in Strips, a \in 0..MaxTabs, col \in 0..(2 * MaxParts) }

InitClick == InitProgram /\ probe \in ClickInputs

ApplyGetTabToFocus ==
    /\ probe.fn = "get_tab_to_focus"
    /\ ~probe.done
    /\ probe' = [probe EXCEPT !.done = TRUE,
                              !.result = GetTabToFocus(probe.tab_line, probe.active_tab_idx,
                                                       probe.mouse_click_col)]
    /\ UNCHANGED << state, files, other, out, sessions, burst, event, credit >>

NextClick == ApplyGetTabToFocus

SpecClick == InitClick /\ [][NextClick]_vars

(***************************************************************************)
(* tab_style on its own (tab.rs 7-79): names of narrow and double-width    *)
(* characters behind the tab's number, sync on or off, no other client, or *)
(* other clients with and without a colour.                                *)
(***************************************************************************)
TabNames == UNION { [1..n -> { "a", "W" }] : n \in 0..MaxNameLen }

OtherClients == { <<>>, << 2 >>, << 2, 3 >>, << 11 >>, << 2, 11 >> }

StyleInputs ==
    { [fn |-> "tab_style", tabname |-> UsizeToString(p + 1) \o << " " >> \o name,
       tab |-> TabInfoOf(p, name, a, sync, others),
       done |-> FALSE, result |-> DefaultLinePart] :
        name \in TabNames, p \in 0..(MaxTabs - 1), a \in BOOLEAN, sync \in BOOLEAN,
        others \in OtherClients }

InitStyle == InitProgram /\ probe \in StyleInputs

ApplyTabStyle ==
    /\ probe.fn = "tab_style"
    /\ ~probe.done
    /\ probe' = [probe EXCEPT !.done = TRUE,
                              !.result = TabStyle(probe.tabname, probe.tab)]
    /\ UNCHANGED << state, files, other, out, sessions, burst, event, credit >>

NextStyle == ApplyTabStyle

SpecStyle == InitStyle /\ [][NextStyle]_vars

(***************************************************************************)
(* Properties.                                                             *)
(***************************************************************************)
TheSwitch(o) == o.calls[CHOOSE i \in SwitchCalls(o.calls) : TRUE]
WriteCalls(calls) == { i \in 1..Len(calls) : calls[i].call \in {"create", "write"} }

\* the list has an entry flagged current whose pid is the stored id
OwnTrigger(cl, src) ==
    \E i \in 1..Len(cl) : cl[i].is_current_client /\ src = Some(cl[i].client_pid)

\* C1: handling a client list issues a switch request only if the list has
\* an entry flagged current whose pid equals the stored triggering id;
\* otherwise it issues no switch request and writes no cache file.
C1_SwitchOnlyForOwnTrigger ==
    [][ (out'.handler = "ListClients"
          /\ ~OwnTrigger(clients', switch_session_event_source_pid))
        => /\ ~SwitchIssued(out')
           /\ WriteCalls(out'.calls) = {}
           /\ files' = files ]_vars

\* a client list was handled, the switch requested and the cache written
C1_Witness ==
    /\ out.handler = "ListClients"
    /\ SwitchIssued(out)
    /\ WriteCalls(out.calls) # {}

\* C2: after a client list has been handled the stored triggering id is None.
C2_IdClearedAfterClientList ==
    out.handler = "ListClients" => switch_session_event_source_pid = None

\* C3: when the session list delivered last holds one session, there is no
\* next-session candidate and no switch request is issued.
C3_SingleSessionNoSwitch ==
    Len(sessions) = 1 => next_session = None /\ ~SwitchIssued(out)

\* the successor of name cur among names, in sorted order, cyclically
SmallestName(names) == CHOOSE n \in names : \A m \in names : m = n \/ StrLess(n, m)
CyclicSuccessor(names, cur) ==
    LET after == { n \in names : StrLess(cur, n) }
    IN  IF after # {} THEN SmallestName(after) ELSE SmallestName(names)

\* C4: after a session list of two or more sessions, current_session is the
\* name of the session flagged current and next_session is its successor
\* in name order, cyclically, whatever the order of the list.
C4_NextIsCyclicSuccessor ==
    Len(sessions) >= 2 =>
        LET names == { sessions[i].name : i \in 1..Len(sessions) }
            cur == CHOOSE n \in names :
                       \E i \in 1..Len(sessions) :
                           sessions[i].name = n /\ sessions[i].is_current_session
        IN  /\ current_session = cur
            /\ next_session = Some(CyclicSuccessor(names, cur))

\* the current session sorts last, and the list came unsorted
C4_Witness ==
    /\ Len(sessions) >= 3
    /\ LET names == { sessions[i].name : i \in 1..Len(sessions) }
       IN  /\ next_session = Some(SmallestName(names))
           /\ sessions[1].name # SmallestName(names)
           /\ sessions[Len(sessions)].name # current_session

\* a file that is missing, empty or cut before its closing brace
Unreadable(f) ==
    \/ ~f.exists
    \/ f.content = <<>>
    \/ f.content[Len(f.content)].t # "}"

\* C5: a switch request targets next_session; it carries a restore target
\* exactly when the next session's cache has an entry for the client's pid,
\* and then that entry; with the cache file missing or unparseable the
\* request is a plain one.
C5_SwitchTargetAndRestore ==
    SwitchIssued(out) =>
        LET c == TheSwitch(out)
            entry == MapLookup(GetSessionLayoutInfo(files, c.session), pid)
        IN  /\ next_session = Some(c.session)
            /\ c.layout = entry
            /\ (c.call = "switch_session_with_focus") = IsSome(entry)
            /\ Unreadable(files[c.session]) =>
                   c.call = "switch_session" /\ c.layout = None

\* a restore target was requested although another client's entry is there
C5_Witness ==
    /\ SwitchIssued(out)
    /\ TheSwitch(out).call = "switch_session_with_focus"
    /\ TheSwitch(out).session # current_session
    /\ OtherPid \in DOMAIN GetSessionLayoutInfo(files, TheSwitch(out).session)

\* the tab flagged active and its focused terminal pane, if any
ActiveTabs == { i \in 1..Len(tabs) : tabs[i].active }
FocusOf(i) ==
    IF tabs[i].position \in DOMAIN panes
    THEN { q \in 1..Len(panes[tabs[i].position]) :
             /\ panes[tabs[i].position][q].is_focused
             /\ ~panes[tabs[i].position][q].is_plugin }
    ELSE {}

\* C6: when a switch request is issued while the tab list has an active tab
\* with a focused pane, the cache of the current session was written before
\* the next session's cache was read and before the request, and maps the
\* client's pid to (position of the active tab, (id, is_plugin) of its
\* focused pane).
C6_DumpBeforeLookupAndSwitch ==
    \A i \in ActiveTabs :
        (SwitchIssued(out) /\ FocusOf(i) # {}) =>
            LET calls == out.calls
                sw == CHOOSE k \in SwitchCalls(calls) : TRUE
                pane == panes[tabs[i].position][CHOOSE q \in FocusOf(i) : TRUE]
            IN  /\ \E w, r \in 1..Len(calls) :
                      /\ w < r /\ r < sw
                      /\ calls[w].call = "write"
                      /\ calls[w].session = current_session
                      /\ calls[r].call = "open"
                      /\ calls[r].session = calls[sw].session
                /\ MapLookup(GetSessionLayoutInfo(files, current_session), pid)
                     = Some(ClientLayout(tabs[i].position, pane.id, pane.is_plugin))

\* a switch to the session that is also the current one, after a dump
C6_Witness ==
    /\ SwitchIssued(out)
    /\ WriteCalls(out.calls) # {}
    /\ TheSwitch(out).session = current_session
    /\ TheSwitch(out).call = "switch_session_with_focus"

\* C7: a second trigger before the client list of the first overwrites the
\* stored id; the switch then depends on the second trigger's id alone, and
\* the triggers together produce at most one switch request.
C7_LastTriggerWins ==
    Len(burst.ids) >= 2 =>
        LET latest == burst.ids[Len(burst.ids)]
        IN  /\ ~burst.delivered => switch_session_event_source_pid = latest
            /\ SwitchIssued(out) => /\ latest = Some(pid)
                                    /\ OwnTrigger(clients, latest)
            /\ burst.switches <= 1

\* a trigger of another client, overwritten by the client's own, then a switch
C7_Witness ==
    /\ Len(burst.ids) >= 2
    /\ IsSome(burst.ids[Len(burst.ids) - 1])
    /\ burst.ids[Len(burst.ids) - 1] # burst.ids[Len(burst.ids)]
    /\ SwitchIssued(out)

\* C8: while another client rewrites a session's cache file, a reader gets
\* the mapping from before the update or the one after it.
C8_ReaderSeesSnapshot ==
    ( /\ other.pc = "writing"
      /\ files[other.session].content
           = SubSeq(ToJson(other.post), 1, other.written) )
    => GetSessionLayoutInfo(files, other.session) \in { other.pre, other.post }

\* C9: after a dump for a session and pid, with no other writer since, a
\* load of the session has for the pid the ClientLayout that was dumped.
C9_LoadAfterDump ==
    \A i \in 1..Len(out.calls) :
        out.calls[i].call = "write" =>
            MapLookup(GetSessionLayoutInfo(files, out.calls[i].session), pid)
              = out.calls[i].layout

\* a dump into a cache that holds another client's entry too
C9_Witness ==
    \E i \in 1..Len(out.calls) :
        /\ out.calls[i].call = "write"
        /\ OtherPid \in DOMAIN GetSessionLayoutInfo(files, out.calls[i].session)
        /\ pid # OtherPid

\* a complete document: the braces and whole members between them
IsDocument(c) ==
    /\ Len(c) >= 2
    /\ c[1].t = "{"
    /\ c[Len(c)].t = "}"
    /\ (Len(c) - 2) % 4 = 0
    /\ \A j \in 1..((Len(c) - 2) \div 4) :
          /\ c[4 * j - 2].t = "key"
          /\ c[4 * j - 1].t = "num"
          /\ c[4 * j].t = "num"
          /\ c[4 * j + 1].t \in {"true", "false"}
Malformed(f) == ~f.exists \/ ~IsDocument(f.content)

\* C10: loading a session whose file is missing or malformed gives the empty
\* mapping, and a dump for that session then writes a mapping that holds
\* the dumping client's entry and no other.
C10_MalformedLoadsEmpty ==
    [][ /\ \A s \in Names :
              Malformed(files[s]) => GetSessionLayoutInfo(files, s) = EmptyMap
        /\ \A i \in 1..Len(out'.calls) :
              ( /\ out'.calls[i].call = "write"
                /\ Malformed(files[out'.calls[i].session]) )
              => GetSessionLayoutInfo(files', out'.calls[i].session)
                   = [k \in {pid'} |-> Unwrap(out'.calls[i].layout)] ]_vars

\* a dump into a file another client had cut: that client's entry is gone
C10_Witness ==
    /\ \E i \in 1..Len(out.calls) :
          out.calls[i].call = "write" /\ out.calls[i].session = other.session
    /\ other.pc = "writing"
    /\ OtherPid \in DOMAIN other.pre
    /\ DOMAIN GetSessionLayoutInfo(files, other.session) = {pid}

(***************************************************************************)
(* The strip on the terminal: render prints the parts one after another    *)
(* (main.rs 174-177), so a part is shown in the columns after those of the *)
(* parts before it.                                                        *)
(***************************************************************************)
RECURSIVE ShownWidth(_)
ShownWidth(line) ==
    IF line = <<>> THEN 0 ELSE Width(Head(line).part) + ShownWidth(Tail(line))

ShownAt(line, i, col) ==
    /\ col >= ShownWidth(SubSeq(line, 1, i - 1))
    /\ col < ShownWidth(SubSeq(line, 1, i))

\* the parts of the strip that show the tab now active
ActiveParts ==
    { i \in 1..Len(tab_line) :
        \E j \in ActiveTabs : tab_line[i].tab_index = Some(tabs[j].position) }

\* C11: a left click at a column inside the segment of the active tab
\* resolves to no selection and sends no tab-focus request, also when the
\* strip was rendered before the last tab-list update.
C11_ClickOnActiveTabSelectsNothing ==
    ( /\ out.handler = "Mouse"
      /\ event.kind = "LeftClick"
      /\ \E i \in ActiveParts : ShownAt(tab_line, i, event.col) )
    => out.calls = <<>>

\* the parts whose columns, counted by the widths recorded, hold the column
HitParts(line, col) ==
    { i \in 1..Len(line) :
        /\ col >= TotalLen(SubSeq(line, 1, i - 1))
        /\ col < TotalLen(SubSeq(line, 1, i - 1)) + line[i].len }

FirstOf(S) == CHOOSE i \in S : \A j \in S : i <= j

\* C12: the part hit is the first whose half-open interval [start,
\* start + width) holds the column; the result is its tab plus one, and no
\* selection when the column is at or after the strip's width, when the part
\* has no tab, or when the ordinal is the active one; a part of width 0 is
\* never hit.
C12_ClickResolution ==
    (probe.fn = "get_tab_to_focus" /\ probe.done) =>
        LET line == probe.tab_line
            col  == probe.mouse_click_col
            hits == HitParts(line, col)
            hit  == line[FirstOf(hits)]
        IN  /\ probe.result =
                  IF hits = {} THEN None
                  ELSE IF hit.tab_index = None THEN None
                  ELSE IF Unwrap(hit.tab_index) + 1 = probe.active_tab_idx THEN None
                  ELSE Some(Unwrap(hit.tab_index) + 1)
            /\ col >= TotalLen(line) => probe.result = None
            /\ hits # {} => hit.len > 0

\* a part of width 0 with another tab is in front of the part that is hit
C12_Witness ==
    /\ probe.fn = "get_tab_to_focus" /\ probe.done
    /\ probe.result # None
    /\ \E i \in HitParts(probe.tab_line, probe.mouse_click_col) :
          /\ i > 1
          /\ probe.tab_line[i - 1].len = 0
          /\ probe.tab_line[i - 1].tab_index # probe.tab_line[i].tab_index
          /\ probe.tab_line[i - 1].tab_index # None

C14_DumpChangesOnlyOwnEntry ==
    [][ \A i \in 1..Len(out'.calls) :
          ( /\ out'.calls[i].call = "write"
            /\ ~Malformed(files[out'.calls[i].session]) ) =>
              LET s      == out'.calls[i].session
                  before == GetSessionLayoutInfo(files, s)
                  after  == GetSessionLayoutInfo(files', s)
              IN  /\ DOMAIN after = DOMAIN before \cup { pid' }
                  /\ \A q \in DOMAIN before \ { pid' } : after[q] = before[q]
                  /\ \A t \in Names \ { s } : files'[t] = files[t]
      ]_vars

\* the plugin has dumped into a file that held the other client's entry,
\* and the file now holds the two entries
C14_Witness ==
    \E i \in 1..Len(out.calls) :
        /\ out.calls[i].call = "write"
        /\ pid # OtherPid
        /\ DOMAIN GetSessionLayoutInfo(files, out.calls[i].session) = { pid, OtherPid }
        /\ MapLookup(GetSessionLayoutInfo(files, out.calls[i].session), OtherPid)
             = Some(OtherLayout)

\* C15: when the stored tab list has no tab flagged active, or the active
\* tab has no focused pane, handling a client list -- the dump it makes
\* before a switch included -- writes nothing: every session's cache file is
\* left as it was, neither created nor truncated nor rewritten.
C15_NoFocusNoWrite ==
    [][ ( /\ out'.handler = "ListClients"
          /\ \/ ActiveTabs = {}
             \/ FocusOf(FirstOf(ActiveTabs)) = {} ) =>
            /\ files' = files
            /\ WriteCalls(out'.calls) = {}
      ]_vars

\* a switch was requested, so the dump was called, with the focus of the
\* active tab on the plugin's own pane: nothing was written
C15_Witness ==
    /\ SwitchIssued(out)
    /\ WriteCalls(out.calls) = {}
    /\ ActiveTabs # {}
    /\ \A i \in ActiveTabs : tabs[i].position \in DOMAIN panes /\ FocusOf(i) = {}
    /\ \A s \in Names : ~files[s].exists

\* the switch_session message was handled: the client list was asked for
IsTrigger(o) ==
    /\ o.handler = "pipe"
    /\ \E i \in 1..Len(o.calls) : o.calls[i].call = "list_clients"

\* a notification that is neither a pipe message nor a client list leaves
\* the stored id alone, requests no switch and writes no cache file
OtherKindsFrame ==
    out'.handler \notin { "pipe", "ListClients" } =>
        /\ switch_session_event_source_pid' = switch_session_event_source_pid
        /\ SwitchCalls(out'.calls) = {}
        /\ WriteCalls(out'.calls) = {}
        /\ files' = files

\* a new id is stored by the switch_session message alone
OnlyTriggerSets ==
    ( /\ switch_session_event_source_pid' # switch_session_event_source_pid
      /\ switch_session_event_source_pid' # None ) => IsTrigger(out')

\* C16 as stated: a notification of another kind (mode, tab list, pane list,
\* session list, mouse, unrecognized) leaves the stored triggering id
\* unchanged and issues no switch request and no cache write; only the
\* switch_session message sets the id and only client-list handling clears it.
C16_OnlyClientListClears ==
    [][ /\ OtherKindsFrame
        /\ OnlyTriggerSets
        /\ ( /\ switch_session_event_source_pid # None
             /\ switch_session_event_source_pid' = None ) => out'.handler = "ListClients"
      ]_vars

\* C16, amended: a notification of another kind leaves the stored id
\* unchanged and issues no switch request and no cache write; only the
\* switch_session message stores an id, and a stored id is cleared by
\* client-list handling or by a switch_session message whose source has no
\* pid, nothing else.
C16_OtherEventsLeaveIdAlone ==
    [][ /\ OtherKindsFrame
        /\ OnlyTriggerSets
        /\ ( /\ switch_session_event_source_pid # None
             /\ switch_session_event_source_pid' = None ) =>
               \/ out'.handler = "ListClients"
               \/ IsTrigger(out')
      ]_vars

\* a scroll was handled, and its tab-focus request sent, while a stored id
\* waits for the client list
C16_Witness ==
    /\ switch_session_event_source_pid # None
    /\ out.handler = "Mouse"
    /\ out.calls # <<>>
    /\ current_session # EmptyString
    /\ IsSome(next_session)

\* the other focused clients that have a colour
Coloured(focused_clients) ==
    { i \in 1..Len(focused_clients) : ClientIdToColors(focused_clients[i]) # None }

\* C17: the width recorded for a styled tab is the display width of the name
\* (with " (Sync)" appended when sync is active) padded with a space on
\* either side, plus one per other focused client with a colour, plus 2 for
\* the brackets when there are other focused clients; that is, the number
\* of columns the segment's text is shown in.
C17_RecordedWidthIsShownWidth ==
    (probe.fn = "tab_style" /\ probe.done) =>
        LET text == IF probe.tab.is_sync_panes_active
                    THEN probe.tabname \o SyncSuffix ELSE probe.tabname
            others == probe.tab.other_focused_clients
        IN  /\ probe.result.len = Width(<< " " >> \o text \o << " " >>)
                                    + Cardinality(Coloured(others))
                                    + (IF others # <<>> THEN 2 ELSE 0)
            /\ probe.result.len = Width(probe.result.part)

\* the tab-focus requests of the handler that ran last
TabCalls(calls) == { i \in 1..Len(calls) : calls[i].call = "switch_tab_to" }

\* C18: every tab-focus request sent to the host, from a left click or a
\* scroll in any reachable state, is for an ordinal n with 1 <= n <= the
\* number of tabs in the stored tab list.
C18_TabFocusInRange ==
    \A i \in TabCalls(out.calls) :
        /\ 1 <= out.calls[i].tab_idx
        /\ out.calls[i].tab_idx <= Len(tabs)

\* C19: the switch requests sent never outnumber the switch_session
\* triggers received with a pid, and a client list handled while the stored
\* id is None requests no switch and writes no cache file.
C19_SwitchesWithinTriggers ==
    [][ /\ credit' >= 0
        /\ ( /\ out'.handler = "ListClients"
             /\ switch_session_event_source_pid = None ) =>
               /\ SwitchCalls(out'.calls) = {}
               /\ WriteCalls(out'.calls) = {}
               /\ files' = files
      ]_vars

\* a client list of the plugin's own client, with sessions, tabs and panes
\* that a switch would use, was handled and requested nothing, while a
\* trigger with a pid has had no switch
C19_Witness ==
    /\ out.handler = "ListClients"
    /\ out.calls = <<>>
    /\ credit = 1
    /\ IsSome(PluginPid(clients))
    /\ IsSome(next_session)
    /\ ActiveTabs # {}
    /\ \A i \in ActiveTabs : FocusOf(i) # {}
    /\ \E s \in Names : files[s].exists

\* the stored tab list is empty, with active_tab_idx 0 and no strip, or has
\* an active tab, the first of them at list index active_tab_idx - 1
TabsShape ==
    IF tabs = <<>>
    THEN active_tab_idx = 0 /\ tab_line = <<>>
    ELSE /\ ActiveTabs # {}
         /\ active_tab_idx = 1 + (FirstOf(ActiveTabs) - 1)

\* C20: in every reachable state the stored tab list is empty -- only before
\* the first accepted tab-list update, with active_tab_idx = 0 and an empty
\* strip -- or has a tab flagged active with active_tab_idx = 1 + the list
\* index of the first such tab; a tab-list notification with no active tab
\* leaves the stored tab list and active_tab_idx unchanged and requests no
\* re-render.
C20_TabListHasActive ==
    [][ /\ TabsShape
        /\ TabsShape'
        /\ tabs # <<>> => tabs' # <<>>
        /\ event'.kind = "TabUpdateNoActive" =>
              /\ tabs' = tabs
              /\ active_tab_idx' = active_tab_idx
              /\ ~out'.should_render
      ]_vars

\* a tab list with no active tab was delivered after one was stored and
\* rendered
C20_Witness ==
    /\ event.kind = "TabUpdateNoActive"
    /\ tabs # <<>>
    /\ tab_line # <<>>
    /\ active_tab_idx = 2

====
